---------------------------- MODULE Spec2Model ----------------------------
(***************************************************************************)
(* Kling_Ai: a Telegram bot (kling_bot.py) that turns two images into a    *)
(* video through an external generation service, a payments ledger kept in *)
(* one SQLite file (payments.py and the copy in kling_bot.py), and a       *)
(* webhook process (webhook_handler.py) that credits the ledger on a       *)
(* signed payment notification.                                            *)
(*                                                                         *)
(* Strings on which the code works character by character (labels, hex     *)
(* digests, codepro, the signature base string) are sequences of           *)
(* one-character strings.                                                  *)
(***************************************************************************)
EXTENDS Integers, Sequences, FiniteSets, TLC

(***************************************************************************)
(* Bounds of the model.                                                    *)
(***************************************************************************)
\* increment calls issued in one behaviour of SpecLedger
MaxCalls == 3

\* notifications delivered in one behaviour of Spec
MaxDeliveries == 2

\* rounds of one poll task that the service or the network lets fail
MaxFailures == 1

\* rounds of one poll task in which the service rejects the submission, in
\* behaviours where it has accepted none
MaxRejections == 21

\* payment requests created in one behaviour of SpecPay
MaxRequests == 1

(***************************************************************************)
(* The ledger: one SQLite file shared by the bot process and the webhook   *)
(* process.                                                                *)
(***************************************************************************)
\* workers of the default executor that run_in_executor(None, ...) uses
\* (min(32, cpu_count + 4) in CPython), scaled down
PoolSize == 1

Procs == {"bot", "webhook"}

\* user ids that occur in the model
Users == {1, 2, 12, 22}

\* the deltas SpecLedger passes to increment_user_balance
Deltas == {-1000, -1, 0, 1, 2}

VARIABLES
    hasUsername,  \* the payments table has the username column (payments.init_db made or migrated it)
    db,           \* user_id -> row of table payments, as committed in the file
    lock,         \* per process: the SQLite file lock its connection holds
    txn,          \* per process: the increment_user_balance call in progress
    ncalls,       \* SpecLedger: calls issued so far
    issued,       \* SpecLedger: per user, the sum of the deltas of the calls issued
    negIssued     \* SpecLedger: per user, whether a negative delta was issued

VARIABLES
    YOOMONEY_SECRET,  \* the configured notification secret, "" when not configured
    hnd,              \* per process: the notification handler in progress
    reply,            \* per process: what its handler emitted last
    credits,          \* <<notification, user>> -> the committed credits it caused
    delivered,        \* notifications delivered so far
    requests          \* the payment requests that pay_by_text has created

VARIABLES
    now,            \* the clock, in seconds since the poll task was created
    pc,             \* where the poll task is
    next_delay,     \* _poll_and_send: the wait before the next round
    notify_count,   \* _poll_and_send: progress notifications sent
    video_url,      \* _poll_and_send: "" (None) or the url the service returned
    start_time,     \* kling_generate_video: when the current call's polling began
    poll_interval,  \* kling_generate_video: the wait between two status requests
    submissions,    \* tasks created at the service so far
    firstSubmitAt,  \* when the first task was created, -1 before
    failures,       \* exceptions other than TimeoutError that a round ended with
    finalMsg,       \* the last message of the task: "none", "video" or "timeout"
    notifiedAt      \* the next_delay of the rounds that ended with a progress message

VARIABLES
    SESSIONS,   \* user_id -> the Session object of the store (0: no entry)
    heap,       \* the Session objects created so far, by identity
    handlers,   \* the on_image calls, by the arrival number of their message
    jobs        \* the _poll_and_send tasks created so far

sessVars == <<SESSIONS, heap, handlers, jobs>>

pollVars == <<now, pc, next_delay, notify_count, video_url, start_time, poll_interval,
              submissions, firstSubmitAt, failures, finalMsg, notifiedAt>>

sqlVars == <<hasUsername, db, lock, txn>>

callVars == <<ncalls, issued, negIssued>>

payVars == <<YOOMONEY_SECRET, hnd, reply, credits, delivered, requests>>

NoRow == [exists |-> FALSE, paid |-> 0, last |-> "NULL"]

IdleTxn == [pc |-> "idle", user |-> 0, delta |-> 0, cur |-> 0, rowSeen |-> FALSE,
            seenLast |-> "NULL", newVal |-> 0, ret |-> 0, err |-> "none"]

Max(a, b) == IF a >= b THEN a ELSE b

Other(p) == CHOOSE q \in Procs : q # p

\* get_user_balance: SELECT paid_generations ...; int(row[0]) if row else 0
get_user_balance(u) == IF db[u].exists THEN db[u].paid ELSE 0

\* The value increment_user_balance stores: max(0, current + delta).
NewVal_NoClamp(current, delta) == current + delta
NewVal(current, delta) == Max(0, current + delta)

\* last_payment_at as written: iso if delta > 0, else what the row held (None for a new row)
NewLast(delta, seenLast) == IF delta > 0 THEN "ts" ELSE seenLast

\* The statement of payments.py names the username column, the statement of
\* kling_bot.py does not; the webhook process imports payments.py's function.
\* On a table without the column SQLite refuses to prepare the statement.
StatementFails(p) == p = "webhook" /\ ~hasUsername

\* SQLite (rollback journal): a connection that already reads (SHARED) and asks
\* for RESERVED while another connection holds RESERVED or PENDING gets
\* SQLITE_BUSY at once, the busy timeout is not waited for.
WriteLockBusy(p) == lock[Other(p)] \in {"reserved", "pending"}

\* A connection may start to read unless another one is PENDING or EXCLUSIVE;
\* until then sqlite3 waits (timeout 5 s by default).
MayRead(p) == lock[Other(p)] # "pending"

\* The committing connection gets EXCLUSIVE once no other connection reads.
MayCommit(p) == lock[Other(p)] = "none"

\* increment_user_balance(user_id, delta) is entered by process p.
EnterIncrement(p, u, d) ==
    txn' = [txn EXCEPT ![p] = [IdleTxn EXCEPT !.pc = IF d = 0 THEN "zero" ELSE "begun",
                                              !.user = u, !.delta = d]]

\* delta == 0: return get_user_balance(user_id), one autocommit SELECT.
TxnZero(p) ==
    /\ txn[p].pc = "zero"
    /\ MayRead(p)
    /\ txn' = [txn EXCEPT ![p].pc = "returned", ![p].ret = get_user_balance(txn[p].user)]
    /\ UNCHANGED <<hasUsername, db, lock>>

\* conn.execute("BEGIN"); SELECT paid_generations, last_payment_at ...: takes SHARED.
TxnSelect(p) ==
    /\ txn[p].pc = "begun"
    /\ MayRead(p)
    /\ lock' = [lock EXCEPT ![p] = "shared"]
    /\ txn' = [txn EXCEPT ![p].pc = "read",
                          ![p].cur = get_user_balance(txn[p].user),
                          ![p].rowSeen = db[txn[p].user].exists,
                          ![p].seenLast = db[txn[p].user].last]
    /\ UNCHANGED <<hasUsername, db>>

\* UPDATE ... / INSERT ...: takes RESERVED, or raises sqlite3.OperationalError;
\* the with-block then rolls the transaction back and the exception propagates.
TxnWrite(p) ==
    /\ txn[p].pc = "read"
    /\ IF StatementFails(p)
       THEN /\ lock' = [lock EXCEPT ![p] = "none"]
            /\ txn' = [txn EXCEPT ![p].pc = "raised", ![p].err = "no_column"]
       ELSE IF WriteLockBusy(p)
       THEN /\ lock' = [lock EXCEPT ![p] = "none"]
            /\ txn' = [txn EXCEPT ![p].pc = "raised", ![p].err = "locked"]
       ELSE /\ lock' = [lock EXCEPT ![p] = "reserved"]
            /\ txn' = [txn EXCEPT ![p].pc = "written",
                                  ![p].newVal = NewVal(txn[p].cur, txn[p].delta)]
    /\ UNCHANGED <<hasUsername, db>>

\* conn.commit() asks for EXCLUSIVE: PENDING first, which keeps new readers out.
TxnCommitStart(p) ==
    /\ txn[p].pc = "written"
    /\ lock' = [lock EXCEPT ![p] = "pending"]
    /\ txn' = [txn EXCEPT ![p].pc = "committing"]
    /\ UNCHANGED <<hasUsername, db>>

\* The commit itself: the row is written to the file, the lock is dropped,
\* new_val is returned.
TxnCommit(p) ==
    /\ txn[p].pc = "committing"
    /\ MayCommit(p)
    /\ db' = [db EXCEPT ![txn[p].user] =
                 [exists |-> TRUE, paid |-> txn[p].newVal,
                  last |-> NewLast(txn[p].delta, txn[p].seenLast)]]
    /\ lock' = [lock EXCEPT ![p] = "none"]
    /\ txn' = [txn EXCEPT ![p].pc = "returned", ![p].ret = txn[p].newVal]
    /\ UNCHANGED hasUsername

TxnStep(p) ==
    \/ TxnZero(p)
    \/ TxnSelect(p)
    \/ TxnWrite(p)
    \/ TxnCommitStart(p)
    \/ TxnCommit(p)

Finished(p) == txn[p].pc \in {"idle", "returned", "raised"}

(***************************************************************************)
(* SpecLedger: the two processes call increment_user_balance with any      *)
(* user and delta, and the calls interleave statement by statement.        *)
(***************************************************************************)
LedgerInit ==
    /\ hasUsername \in BOOLEAN
    /\ db = [u \in Users |-> NoRow]
    /\ lock = [p \in Procs |-> "none"]
    /\ txn = [p \in Procs |-> IdleTxn]
    /\ ncalls = 0
    /\ issued = [u \in Users |-> 0]
    /\ negIssued = [u \in Users |-> FALSE]

Call(p, u, d) ==
    /\ Finished(p)
    /\ ncalls < MaxCalls
    /\ EnterIncrement(p, u, d)
    /\ ncalls' = ncalls + 1
    /\ issued' = [issued EXCEPT ![u] = @ + d]
    /\ negIssued' = [negIssued EXCEPT ![u] = @ \/ d < 0]
    /\ UNCHANGED <<hasUsername, db, lock, payVars, pollVars, sessVars>>

LedgerTxn(p) == TxnStep(p) /\ UNCHANGED <<callVars, payVars, pollVars, sessVars>>

(***************************************************************************)
(* Strings as sequences of characters.                                     *)
(***************************************************************************)
\* The characters of the model with their ASCII codes: ord(c).
UpperLetters == <<"A", "B", "C", "D", "E", "F", "G", "H", "I", "J", "K", "L", "M",
                  "N", "O", "P", "Q", "R", "S", "T", "U", "V", "W", "X", "Y", "Z">>

LowerLetters == <<"a", "b", "c", "d", "e", "f", "g", "h", "i", "j", "k", "l", "m",
                  "n", "o", "p", "q", "r", "s", "t", "u", "v", "w", "x", "y", "z">>

Digits == <<"0", "1", "2", "3", "4", "5", "6", "7", "8", "9">>

OrdOf(c) ==
    IF \E i \in DOMAIN Digits : Digits[i] = c
    THEN 47 + (CHOOSE i \in DOMAIN Digits : Digits[i] = c)
    ELSE IF \E i \in DOMAIN UpperLetters : UpperLetters[i] = c
    THEN 64 + (CHOOSE i \in DOMAIN UpperLetters : UpperLetters[i] = c)
    ELSE IF \E i \in DOMAIN LowerLetters : LowerLetters[i] = c
    THEN 96 + (CHOOSE i \in DOMAIN LowerLetters : LowerLetters[i] = c)
    ELSE IF c = "&" THEN 38
    ELSE IF c = "-" THEN 45
    ELSE IF c = "." THEN 46
    ELSE IF c = ":" THEN 58
    ELSE 95  \* "_"

Chars == {Digits[i] : i \in DOMAIN Digits} \cup {UpperLetters[i] : i \in DOMAIN UpperLetters}
         \cup {LowerLetters[i] : i \in DOMAIN LowerLetters} \cup {"&", "-", ".", ":", "_"}

CharCodes == [c \in Chars |-> OrdOf(c)]

Ord(c) == CharCodes[c]

HexDigits == Digits \o <<"a", "b", "c", "d", "e", "f">>

\* ch.isdigit(), ASCII
IsDigitCh(c) == \E i \in DOMAIN Digits : Digits[i] = c

DigitVal(c) == (CHOOSE i \in DOMAIN Digits : Digits[i] = c) - 1

\* str.isdigit(): not empty and every character a digit
IsDigitStr(s) == Len(s) > 0 /\ \A i \in DOMAIN s : IsDigitCh(s[i])

\* int(s) of a digit string
RECURSIVE ToInt(_)
ToInt(s) == IF Len(s) = 0 THEN 0
            ELSE 10 * ToInt(SubSeq(s, 1, Len(s) - 1)) + DigitVal(s[Len(s)])

\* "".join(ch for ch in label if ch.isdigit())
OnlyDigits(s) == SelectSeq(s, IsDigitCh)

\* s.startswith(prefix)
StartsWith(s, prefix) == Len(s) >= Len(prefix) /\ SubSeq(s, 1, Len(prefix)) = prefix

\* s.split(":", 1)[1] of a string that holds a colon
AfterFirstColon(s) ==
    LET i == CHOOSE k \in DOMAIN s : s[k] = ":" /\ \A j \in 1..(k - 1) : s[j] # ":"
    IN  SubSeq(s, i + 1, Len(s))

LowerCh(c) == IF \E i \in DOMAIN UpperLetters : UpperLetters[i] = c
              THEN LowerLetters[CHOOSE i \in DOMAIN UpperLetters : UpperLetters[i] = c]
              ELSE c

UpperCh(c) == IF \E i \in DOMAIN LowerLetters : LowerLetters[i] = c
              THEN UpperLetters[CHOOSE i \in DOMAIN LowerLetters : LowerLetters[i] = c]
              ELSE c

\* s.lower()
Lower(s) == [i \in DOMAIN s |-> LowerCh(s[i])]

\* sep.join(parts)
RECURSIVE Join(_, _)
Join(parts, sep) == IF Len(parts) = 0 THEN <<>>
                    ELSE IF Len(parts) = 1 THEN parts[1]
                    ELSE parts[1] \o sep \o Join(Tail(parts), sep)

(***************************************************************************)
(* The payment notification and its verification.                          *)
(***************************************************************************)
\* hex digits of the digest in the model (hashlib.sha1 gives 40)
DigestLen == 4

RECURSIVE Pow16(_)
Pow16(n) == IF n = 0 THEN 1 ELSE 16 * Pow16(n - 1)

DigestMod == Pow16(DigestLen)

\* the hash of the characters s[i..], continued from h
RECURSIVE HashFold(_, _, _)
HashFold(h, s, i) == IF i > Len(s) THEN h
                     ELSE HashFold((h * 33 + Ord(s[i])) % DigestMod, s, i + 1)

RECURSIVE HexOf(_, _)
HexOf(h, n) == IF n = 0 THEN <<>>
               ELSE Append(HexOf(h \div 16, n - 1), HexDigits[(h % 16) + 1])

\* hashlib.sha1(sign_string.encode("utf-8")).hexdigest(): a deterministic digest
\* of the exact byte string, in lower-case hex.  The model's digest is a
\* DigestLen-digit multiplicative hash of the characters in place of SHA-1.
Sha1Hex(s) == HexOf(HashFold(5381 % DigestMod, s, 1), DigestLen)

\* params.get(k, default) of the normalised parameter dictionary
Get(params, k, default) == IF k \in DOMAIN params THEN params[k] ELSE default

ordered_keys == <<"notification_type", "operation_id", "amount", "currency",
                  "datetime", "sender", "codepro", "label">>

\* secret = YOOMONEY_SECRET or params.get("secret", "")
SecretOf(configured, params) ==
    IF Len(configured) > 0 THEN configured ELSE Get(params, "secret", <<>>)

\* sign_string = "&".join([params.get(k, "") for k in ordered_keys] + [secret])
SignString(params, secret) ==
    Join([i \in 1..(Len(ordered_keys) + 1) |->
             IF i <= Len(ordered_keys) THEN Get(params, ordered_keys[i], <<>>) ELSE secret],
         <<"&">>)

\* received_hash = params.get("sha1_hash") or params.get("md5")
\*                 or params.get("notification_secret") or ""
ReceivedHash_Md5First(params) ==
    IF Len(Get(params, "md5", <<>>)) > 0 THEN params["md5"]
    ELSE IF Len(Get(params, "sha1_hash", <<>>)) > 0 THEN params["sha1_hash"]
    ELSE Get(params, "notification_secret", <<>>)
ReceivedHash(params) ==
    IF Len(Get(params, "sha1_hash", <<>>)) > 0 THEN params["sha1_hash"]
    ELSE IF Len(Get(params, "md5", <<>>)) > 0 THEN params["md5"]
    ELSE Get(params, "notification_secret", <<>>)

FalseStr == <<"f", "a", "l", "s", "e">>

TrueStr == <<"t", "r", "u", "e">>

Rub == <<"6", "4", "3">>

\* kling_bot.py: is_valid = (received_hash.lower() == sha1_hex.lower())
\*                          and (params.get("codepro", "false").lower() == "false")
ChatIsValid_NoCodepro(configured, params) ==
    Lower(ReceivedHash(params)) = Lower(Sha1Hex(SignString(params, SecretOf(configured, params))))
ChatIsValid(configured, params) ==
    /\ Lower(ReceivedHash(params)) = Lower(Sha1Hex(SignString(params, SecretOf(configured, params))))
    /\ Lower(Get(params, "codepro", FalseStr)) = FalseStr

WebhookIsValid_NoCurrency(configured, params) == ChatIsValid(configured, params)

\* webhook_handler.py: the same, and normalized_params.get("currency") == "643"
WebhookIsValid(configured, params) ==
    /\ Lower(ReceivedHash(params)) = Lower(Sha1Hex(SignString(params, SecretOf(configured, params))))
    /\ Lower(Get(params, "codepro", FalseStr)) = FalseStr
    /\ "currency" \in DOMAIN params
    /\ params["currency"] = Rub

UserIdPrefix == <<"u", "s", "e", "r", "_", "i", "d", ":">>

\* The result of the label extraction: <<>> is None, <<id>> a user id.
\* kling_bot.py: whole label, then the user_id: prefix; if still None, the
\* digits of the label.
ChatExtractUserId_NoFallback(label) ==
    IF IsDigitStr(label) THEN <<ToInt(label)>>
    ELSE IF StartsWith(label, UserIdPrefix) /\ IsDigitStr(AfterFirstColon(label))
    THEN <<ToInt(AfterFirstColon(label))>>
    ELSE <<>>
ChatExtractUserId(label) ==
    LET first == IF IsDigitStr(label) THEN <<ToInt(label)>>
                 ELSE IF StartsWith(label, UserIdPrefix) /\ IsDigitStr(AfterFirstColon(label))
                 THEN <<ToInt(AfterFirstColon(label))>>
                 ELSE <<>>
        digits == OnlyDigits(label)
    IN  IF Len(first) = 0
        THEN IF Len(digits) > 0 THEN <<ToInt(digits)>> ELSE <<>>
        ELSE first

\* webhook_handler.py: if / elif / else with the digits in the else branch
WebhookExtractUserId(label) ==
    IF IsDigitStr(label) THEN <<ToInt(label)>>
    ELSE IF StartsWith(label, UserIdPrefix) /\ IsDigitStr(AfterFirstColon(label))
    THEN <<ToInt(AfterFirstColon(label))>>
    ELSE IF Len(OnlyDigits(label)) > 0 THEN <<ToInt(OnlyDigits(label))>>
    ELSE <<>>

(***************************************************************************)
(* The notifications that are delivered: the parameter dictionary after    *)
(* parsing and key normalisation (kling_bot.py 447-480, webhook_handler.py *)
(* 43-72), signed by the sender.                                           *)
(***************************************************************************)
EmptyParams == [k \in {} |-> <<>>]

\* an optional field: o is <<>> (absent) or <<value>>
Opt(k, o) == IF Len(o) = 0 THEN EmptyParams ELSE (k :> o[1])

Fields(op, cp, lab, cur, sec) ==
    ("notification_type" :> <<"p">>) @@ ("operation_id" :> op) @@ ("amount" :> <<"5">>)
    @@ Opt("currency", cur) @@ ("datetime" :> <<"t">>) @@ ("sender" :> <<"4">>)
    @@ Opt("codepro", cp) @@ ("label" :> lab) @@ Opt("secret", sec)

HexIndex(c) == CHOOSE i \in DOMAIN HexDigits : HexDigits[i] = c

\* the signature field as sent: the digest, nothing, the digest with one hex
\* digit replaced, or the digest with one letter in upper case
SigVariant(d, kind) ==
    IF kind[1] = "good" THEN d
    ELSE IF kind[1] = "none" THEN <<>>
    ELSE IF kind[1] = "flip"
    THEN [d EXCEPT ![kind[2]] = HexDigits[(HexIndex(d[kind[2]]) % 16) + 1]]
    ELSE [d EXCEPT ![kind[2]] = UpperCh(d[kind[2]])]

Notif(op, cp, lab, cur, signer, sec, kind, carrier) ==
    LET f   == Fields(op, cp, lab, cur, sec)
        d   == Sha1Hex(SignString(f, signer))
        sig == SigVariant(d, kind)
    IN  IF carrier = "both" THEN f @@ ("sha1_hash" :> sig) @@ ("md5" :> d)
        ELSE IF Len(sig) = 0 THEN f
        ELSE f @@ (carrier :> sig)

\* the secret shared with the payment provider, and another one
RealSecret == <<"k">>

OtherSecret == <<"x">>

Ops == {<<"a">>, <<"b">>}

FalseUpper == <<"F", "A", "L", "S", "E">>

LabelDigits == <<"1">>

LabelPrefixed == UserIdPrefix \o <<"2">>

LabelMixed == <<"1", "a", "2">>

LabelPrefixedMixed == UserIdPrefix \o <<"2", "a">>

LabelNoDigit == <<"a", "b">>

LabelPrefixOnly == UserIdPrefix

\* the sender signed with the shared secret, or with a secret it put in the payload
Signers == {<<RealSecret, <<>> >>, <<OtherSecret, <<OtherSecret>> >>}

SmallNotifs ==
    { Notif(op, cp, lab, cur, sg[1], sg[2], kind, "sha1_hash") :
        op \in Ops,
        cp \in {<<FalseStr>>, <<TrueStr>>},
        lab \in {LabelDigits, LabelPrefixed, LabelNoDigit},
        cur \in {<<Rub>>, << <<"8", "4", "0">> >>},
        sg \in {<<RealSecret, <<>> >>},
        kind \in {<<"good">>, <<"flip", 1>>} }

RichNotifs ==
    { Notif(<<"a">>, cp, lab, cur, sg[1], sg[2], kind, carrier) :
        cp \in {<<>>, <<FalseStr>>, <<TrueStr>>, <<FalseUpper>>},
        lab \in {LabelDigits, LabelPrefixed, LabelMixed, LabelPrefixedMixed,
                 LabelNoDigit, LabelPrefixOnly, <<>>},
        cur \in {<<Rub>>, << <<"8", "4", "0">> >>, <<>>},
        sg \in Signers,
        kind \in {<<"good">>, <<"none">>}
                 \cup {<<"flip", i>> : i \in 1..DigestLen}
                 \cup {<<"case", i>> : i \in 1..DigestLen},
        carrier \in {"sha1_hash", "md5", "notification_secret", "both"} }

(***************************************************************************)
(* The notification handlers: on_yoomoney_notification of the bot process  *)
(* and yoomoney_webhook of the webhook process.                            *)
(***************************************************************************)
IdleHnd == [st |-> "idle", reason |-> "none", n |-> EmptyParams]

NoReply == [kind |-> "none", user |-> 0, balance |-> 0]

PayInit ==
    /\ YOOMONEY_SECRET \in {RealSecret, <<>>}
    /\ hnd = [p \in Procs |-> IdleHnd]
    /\ reply = [p \in Procs |-> NoReply]
    /\ credits = [k \in {} |-> 0]
    /\ delivered = 0
    /\ requests = {}

\* Verify with the increment entered before the checks
Verify_CreditFirst(p, n, valid, uid) ==
    /\ hnd[p].st = "idle"
    /\ delivered < MaxDeliveries
    /\ delivered' = delivered + 1
    /\ hnd' = [hnd EXCEPT ![p] = [st |-> IF valid /\ Len(uid) > 0 THEN "crediting" ELSE "reject",
                                   reason |-> IF ~valid THEN "invalid"
                                              ELSE IF Len(uid) = 0 THEN "unresolved" ELSE "none",
                                   n |-> n]]
    /\ EnterIncrement(p, IF Len(uid) > 0 THEN uid[1] ELSE 1, 1)
    /\ UNCHANGED <<hasUsername, db, lock, YOOMONEY_SECRET, requests, reply, credits, callVars, pollVars, sessVars>>

\* What a handler does with the parameters up to its first await or ledger call:
\* reject as invalid, reject as unresolved, or enter increment_user_balance(id, 1).
Verify(p, n, valid, uid) ==
    /\ hnd[p].st = "idle"
    /\ delivered < MaxDeliveries
    /\ delivered' = delivered + 1
    /\ IF ~valid
       THEN /\ hnd' = [hnd EXCEPT ![p] = [st |-> "reject", reason |-> "invalid", n |-> n]]
            /\ UNCHANGED txn
       ELSE IF Len(uid) = 0
       THEN /\ hnd' = [hnd EXCEPT ![p] = [st |-> "reject", reason |-> "unresolved", n |-> n]]
            /\ UNCHANGED txn
       ELSE /\ hnd' = [hnd EXCEPT ![p] = [st |-> "crediting", reason |-> "none", n |-> n]]
            /\ EnterIncrement(p, uid[1], 1)
    /\ UNCHANGED <<hasUsername, db, lock, YOOMONEY_SECRET, requests, reply, credits, callVars, pollVars, sessVars>>

\* on_yoomoney_notification, kling_bot.py 482-536
ChatNotify(n) ==
    Verify("bot", n, ChatIsValid(YOOMONEY_SECRET, n), ChatExtractUserId(Get(n, "label", <<>>)))

\* yoomoney_webhook, webhook_handler.py 74-120
WebhookNotify(n) ==
    Verify("webhook", n, WebhookIsValid(YOOMONEY_SECRET, n),
           WebhookExtractUserId(Get(n, "label", <<>>)))

\* The statements of increment_user_balance run by the handler of process p.
PayTxn(p) ==
    /\ hnd[p].st = "crediting"
    /\ TxnStep(p)
    /\ credits' = IF txn[p].pc = "committing"
                  THEN LET k == <<hnd[p].n, txn[p].user>>
                       IN  IF k \in DOMAIN credits THEN [credits EXCEPT ![k] = @ + 1]
                           ELSE credits @@ (k :> 1)
                  ELSE credits
    /\ UNCHANGED <<YOOMONEY_SECRET, requests, hnd, reply, delivered, callVars, pollVars, sessVars>>

\* The handler of p emits a message and returns.
Emit(p, kind, user, balance) ==
    /\ reply' = [reply EXCEPT ![p] = [kind |-> kind, user |-> user, balance |-> balance]]
    /\ hnd' = [hnd EXCEPT ![p] = IdleHnd]
    /\ txn' = [txn EXCEPT ![p] = IdleTxn]
    /\ UNCHANGED <<hasUsername, db, lock, YOOMONEY_SECRET, requests, credits, delivered, callVars, pollVars, sessVars>>

\* kling_bot.py 504-509 and 528-533: the diagnostic, then return
ChatSendDiagnostic ==
    /\ hnd["bot"].st = "reject"
    /\ Emit("bot", IF hnd["bot"].reason = "invalid" THEN "diag_invalid" ELSE "diag_unresolved",
            0, 0)

\* kling_bot.py 536-540: the confirmation with new_balance
ChatSendConfirmation ==
    /\ hnd["bot"].st = "crediting"
    /\ txn["bot"].pc = "returned"
    /\ Emit("bot", "confirm", txn["bot"].user, txn["bot"].ret)

\* kling_bot.py 541-546: the exception of increment_user_balance is reported
ChatSendError ==
    /\ hnd["bot"].st = "crediting"
    /\ txn["bot"].pc = "raised"
    /\ Emit("bot", "error", txn["bot"].user, 0)

\* webhook_handler.py 98-100 and 114-116: HTTP 400
WebhookReject ==
    /\ hnd["webhook"].st = "reject"
    /\ Emit("webhook", IF hnd["webhook"].reason = "invalid" THEN "http400_invalid"
                       ELSE "http400_label", 0, 0)

\* webhook_handler.py 121-132: the message to the user is sent, {"status": "ok"}
WebhookRespondOk ==
    /\ hnd["webhook"].st = "crediting"
    /\ txn["webhook"].pc = "returned"
    /\ Emit("webhook", "ok", txn["webhook"].user, txn["webhook"].ret)

\* webhook_handler.py 128-130: increment_user_balance or bot.send_message raised,
\* HTTP 500
WebhookRespond500 ==
    /\ hnd["webhook"].st = "crediting"
    /\ txn["webhook"].pc \in {"returned", "raised"}
    /\ Emit("webhook", "http500", txn["webhook"].user, 0)

(***************************************************************************)
(* The payment request of pay_by_text and the notification the provider    *)
(* sends for it once it is paid.                                            *)
(***************************************************************************)
\* str(n) of a non-negative int
RECURSIVE Str(_)
Str(n) == IF n < 10 THEN <<Digits[n + 1]>> ELSE Str(n \div 10) \o <<Digits[(n % 10) + 1]>>

\* "label": str(user_id) + str(user_name)
PayLabel(user_id, user_name) == Str(user_id) \o user_name

\* the users that ask to pay, and display names (message.from_user.full_name)
Payers == {1, 2}

FullNames == {<<"B", "o", "b">>, <<"2">>, <<"a", "2">>}

\* pay_by_text: the request with the label is posted to the provider
pay_by_text(u, name) ==
    /\ Cardinality(requests) < MaxRequests
    /\ requests' = requests \cup {[user |-> u, label |-> PayLabel(u, name)]}
    /\ UNCHANGED <<sqlVars, callVars, YOOMONEY_SECRET, hnd, reply, credits, delivered,
                   pollVars, sessVars>>

\* the provider's notification of the payment of request r: it carries the
\* label of the request and is signed with the shared secret
PaidNotification(r) ==
    Notif(<<"a">>, <<FalseStr>>, r.label, <<Rub>>, RealSecret, <<>>, <<"good">>, "sha1_hash")

(***************************************************************************)
(* The poll task: _poll_and_send around kling_generate_video.              *)
(***************************************************************************)
MAX_WAIT == 1200

InitialDelay == 30

InitialPollInterval == 5

PollIntervalStep == 3

PollIntervalCap == 15

StatusReadTimeout == 90

NotifyCap == 20

PollInit ==
    /\ now = 0
    /\ pc = "sleeping"
    /\ next_delay = InitialDelay
    /\ notify_count = 0
    /\ video_url = ""
    /\ start_time = 0
    /\ poll_interval = InitialPollInterval
    /\ submissions = 0
    /\ firstSubmitAt = -1
    /\ failures = 0
    /\ finalMsg = "none"
    /\ notifiedAt = <<>>

Min(a, b) == IF a <= b THEN a ELSE b

NextDelay_NoCeiling(d) == IF d < 60 THEN d + 30 ELSE d + 15

\* next_delay = min(next_delay + 30 if next_delay < 60 else min(next_delay + 15, 90), 90)
NextDelay(d) == Min(IF d < 60 THEN d + 30 ELSE Min(d + 15, 90), 90)

\* if poll_interval < 15: poll_interval = min(poll_interval + 3, 15)
NextPollInterval(i) ==
    IF i < PollIntervalCap THEN Min(i + PollIntervalStep, PollIntervalCap) ELSE i

\* if time.time() - start_time > MAX_WAIT: raise TimeoutError
DeadlineExceeded_Twice(t, started) == t - started > 2 * MAX_WAIT
DeadlineExceeded(t, started) == t - started > MAX_WAIT

\* a step of the poll task leaves the ledger and the handlers alone
PollFrame == UNCHANGED <<sqlVars, callVars, payVars, sessVars>>

PollSleep_NoWait ==
    /\ pc = "sleeping"
    /\ now' = now
    /\ pc' = "submitting"
    /\ UNCHANGED <<next_delay, notify_count, video_url, start_time, poll_interval,
                   submissions, firstSubmitAt, failures, finalMsg, notifiedAt>>
    /\ PollFrame

\* await asyncio.sleep(next_delay), then kling_generate_video is entered
PollSleep ==
    /\ pc = "sleeping"
    /\ now' = now + next_delay
    /\ pc' = "submitting"
    /\ UNCHANGED <<next_delay, notify_count, video_url, start_time, poll_interval,
                   submissions, firstSubmitAt, failures, finalMsg, notifiedAt>>
    /\ PollFrame

\* requests.post(API_URL, ...): the task is created and polling starts
SubmitOk ==
    /\ pc = "submitting"
    /\ submissions' = submissions + 1
    /\ firstSubmitAt' = IF firstSubmitAt < 0 THEN now ELSE firstSubmitAt
    /\ start_time' = now
    /\ poll_interval' = InitialPollInterval
    /\ pc' = "checking"
    /\ UNCHANGED <<now, next_delay, notify_count, video_url, failures, finalMsg, notifiedAt>>
    /\ PollFrame

\* the request fails or the response has a non-zero code: an exception that
\* _poll_and_send logs as a transient error
SubmitFails ==
    /\ pc = "submitting"
    /\ \/ failures < MaxFailures
       \/ submissions = 0 /\ failures < MaxRejections
    /\ failures' = failures + 1
    /\ pc' = "notifying"
    /\ UNCHANGED <<now, next_delay, notify_count, video_url, start_time, poll_interval,
                   submissions, firstSubmitAt, finalMsg, notifiedAt>>
    /\ PollFrame

\* the head of the polling loop: the deadline of this call
CheckDeadline ==
    /\ pc = "checking"
    /\ pc' = IF DeadlineExceeded(now, start_time) THEN "finishing" ELSE "polling"
    /\ UNCHANGED <<now, next_delay, notify_count, video_url, start_time, poll_interval,
                   submissions, firstSubmitAt, failures, finalMsg, notifiedAt>>
    /\ PollFrame

\* requests.get(status): task_status is neither "succeed" nor "failed"
StatusProcessing ==
    /\ pc = "polling"
    /\ pc' = "waiting"
    /\ UNCHANGED <<now, next_delay, notify_count, video_url, start_time, poll_interval,
                   submissions, firstSubmitAt, failures, finalMsg, notifiedAt>>
    /\ PollFrame

\* requests.exceptions.ReadTimeout after timeout=90: pass
StatusReadTimedOut ==
    /\ pc = "polling"
    /\ now' = now + StatusReadTimeout
    /\ pc' = "waiting"
    /\ UNCHANGED <<next_delay, notify_count, video_url, start_time, poll_interval,
                   submissions, firstSubmitAt, failures, finalMsg, notifiedAt>>
    /\ PollFrame

\* task_status == "succeed": the url is returned and _poll_and_send breaks
StatusSucceed ==
    /\ pc = "polling"
    /\ video_url' = "url"
    /\ pc' = "finishing"
    /\ UNCHANGED <<now, next_delay, notify_count, start_time, poll_interval,
                   submissions, firstSubmitAt, failures, finalMsg, notifiedAt>>
    /\ PollFrame

\* task_status == "failed", a non-zero code or a transport error: RuntimeError
\* or a requests exception, caught by except Exception in _poll_and_send
StatusFails ==
    /\ pc = "polling"
    /\ failures < MaxFailures
    /\ failures' = failures + 1
    /\ pc' = "notifying"
    /\ UNCHANGED <<now, next_delay, notify_count, video_url, start_time, poll_interval,
                   submissions, firstSubmitAt, finalMsg, notifiedAt>>
    /\ PollFrame

PollWait_NoSleep ==
    /\ pc = "waiting"
    /\ now' = now
    /\ poll_interval' = NextPollInterval(poll_interval)
    /\ pc' = "checking"
    /\ UNCHANGED <<next_delay, notify_count, video_url, start_time,
                   submissions, firstSubmitAt, failures, finalMsg, notifiedAt>>
    /\ PollFrame

\* time.sleep(poll_interval) and the backoff
PollWait ==
    /\ pc = "waiting"
    /\ now' = now + poll_interval
    /\ poll_interval' = NextPollInterval(poll_interval)
    /\ pc' = "checking"
    /\ UNCHANGED <<next_delay, notify_count, video_url, start_time,
                   submissions, firstSubmitAt, failures, finalMsg, notifiedAt>>
    /\ PollFrame

\* the progress message, notify_count += 1, the cap of 20, the next delay
Notify ==
    /\ pc = "notifying"
    /\ notify_count' = notify_count + 1
    /\ notifiedAt' = Append(notifiedAt, next_delay)
    /\ IF notify_count + 1 >= NotifyCap
       THEN pc' = "finishing" /\ UNCHANGED next_delay
       ELSE pc' = "sleeping" /\ next_delay' = NextDelay(next_delay)
    /\ UNCHANGED <<now, video_url, start_time, poll_interval,
                   submissions, firstSubmitAt, failures, finalMsg>>
    /\ PollFrame

\* after the loop: the video, or the timeout text
Finish ==
    /\ pc = "finishing"
    /\ finalMsg' = IF video_url # "" THEN "video" ELSE "timeout"
    /\ pc' = "done"
    /\ UNCHANGED <<now, next_delay, notify_count, video_url, start_time, poll_interval,
                   submissions, firstSubmitAt, failures, notifiedAt>>
    /\ PollFrame

(***************************************************************************)
(* The image flow of kling_bot.py: the session store, the on_image         *)
(* handlers and the poll tasks they create.  aiogram 3 runs the handler of  *)
(* every update as a task of its own (start_polling, handle_as_tasks=True), *)
(* so handlers interleave at their awaits; between two awaits a handler is  *)
(* atomic.  An image is named by the arrival number of its message.         *)
(***************************************************************************)
SUsers == {1, 2}

\* image messages that arrive
MaxImages == 3

\* on_image calls that are between their first and their last statement
MaxInFlight == 2

\* image messages that arrive one after the other (SpecPool)
MaxPoolImages == 4

InFlight == {m \in DOMAIN handlers : handlers[m].pc # "done"}

\* Session(): start_b64, end_b64 and workdir are None (0)
NewSession == [start_b64 |-> 0, end_b64 |-> 0, workdir |-> 0]

\* an on_image call that has returned or raised
Ended == [user |-> 0, session |-> 0, pc |-> "done"]

SessInit ==
    /\ SESSIONS = [u \in SUsers |-> 0]
    /\ heap = <<>>
    /\ handlers = <<>>
    /\ jobs = <<>>

SessFrame == UNCHANGED <<sqlVars, callVars, payVars, pollVars>>

\* Every reference to a Session object: the store's, the handlers', the tasks'.
Refs(S, Hd, J) ==
    [p \in 1..(2 + Len(Hd) + Len(J)) |->
        IF p <= 2 THEN S[p]
        ELSE IF p <= 2 + Len(Hd) THEN Hd[p - 2].session
        ELSE J[p - 2 - Len(Hd)].session]

\* The new state of the store, the objects H, the handlers and the tasks.
\* Python frees the objects that nothing refers to any more; an object has no
\* name of its own, so the ones that are left are numbered in the order in
\* which the store, the handlers and the tasks first refer to them.
Commit(S, H, Hd, J) ==
    \E refs \in {Refs(S, Hd, J)} :
    \E firsts \in {{p \in DOMAIN refs : refs[p] # 0 /\ \A q \in 1..(p - 1) : refs[q] # refs[p]}} :
    \E rank \in {[i \in 0..Len(H) |->
                    IF \E p \in firsts : refs[p] = i
                    THEN Cardinality({q \in firsts : q <= (CHOOSE p \in firsts : refs[p] = i)})
                    ELSE 0]} :
        /\ SESSIONS' = [u \in SUsers |-> rank[S[u]]]
        /\ handlers' = [m \in DOMAIN Hd |-> [Hd[m] EXCEPT !.session = rank[@]]]
        /\ jobs' = [k \in DOMAIN J |-> [J[k] EXCEPT !.session = rank[@]]]
        /\ heap' = [r \in 1..Cardinality(firsts) |->
                       H[CHOOSE i \in 1..Len(H) : rank[i] = r]]
        /\ SessFrame

\* the object that Session() returns, bound in H
NewId == Len(heap) + 1

Alloc(H) == Append(H, NewSession)

\* if not session.workdir: session.workdir = Path("runs") / ...
WithWorkdir(sess) == IF sess.workdir = 0 THEN [sess EXCEPT !.workdir = 1] ELSE sess

StoreImage_EndFirst(sess, img) ==
    IF sess.end_b64 = 0 THEN [sess EXCEPT !.end_b64 = img] ELSE [sess EXCEPT !.start_b64 = img]

\* if not session.start_b64: session.start_b64 = ...; else session.end_b64 = ...
StoreImage(sess, img) ==
    IF sess.start_b64 = 0 THEN [sess EXCEPT !.start_b64 = img] ELSE [sess EXCEPT !.end_b64 = img]

\* session = SESSIONS.setdefault(user_id, Session()), for the next message
SetDefault(u, pcAfter) ==
    LET S == IF SESSIONS[u] = 0 THEN [SESSIONS EXCEPT ![u] = NewId] ELSE SESSIONS
        H == IF SESSIONS[u] = 0 THEN Alloc(heap) ELSE heap
    IN  Commit(S, H,
               Append(handlers, IF pcAfter = "done" THEN Ended
                                ELSE [user |-> u, session |-> S[u], pc |-> pcAfter]),
               jobs)

\* on_image is entered for a photo or an image document
ImageArrives(u) ==
    /\ Len(handlers) < MaxImages
    /\ Cardinality(InFlight) < MaxInFlight
    /\ SetDefault(u, "downloading")

\* on_image for a document that is no image: setdefault, the hint, return
NotAnImage(u) ==
    /\ Len(handlers) < MaxImages
    /\ Cardinality(InFlight) < MaxInFlight
    /\ SetDefault(u, "done")

\* on_image is entered while no other call of it is under way
ImageArrivesAlone(u) ==
    /\ Len(handlers) < MaxPoolImages
    /\ InFlight = {}
    /\ SetDefault(u, "downloading")

\* get_file and download_file returned: the working directory and the image.
\* After the first image the handler only awaits its acknowledgement and
\* returns, which nothing else can observe, so it ends here; after the second
\* image the notice of line 364 is awaited before the task is created.
DownloadDone(m) ==
    /\ handlers[m].pc = "downloading"
    /\ Commit(SESSIONS,
              [heap EXCEPT ![handlers[m].session] = StoreImage(WithWorkdir(@), m)],
              [handlers EXCEPT ![m] = IF heap[handlers[m].session].start_b64 = 0
                                      THEN Ended ELSE [@ EXCEPT !.pc = "ack_second"]],
              jobs)

\* get_file or download_file raises
DownloadFails(m) ==
    /\ handlers[m].pc = "downloading"
    /\ Commit(SESSIONS, heap, [handlers EXCEPT ![m].pc = "error"], jobs)

\* mkdir or the write of the image file raises after session.workdir was assigned
FileWriteFails(m) ==
    /\ handlers[m].pc = "downloading"
    /\ Commit(SESSIONS, [heap EXCEPT ![handlers[m].session] = WithWorkdir(@)],
              [handlers EXCEPT ![m].pc = "error"], jobs)

\* the first image was stored and message.answer of line 355 raises
FirstAnswerFails(m) ==
    /\ handlers[m].pc = "downloading"
    /\ heap[handlers[m].session].start_b64 = 0
    /\ Commit(SESSIONS,
              [heap EXCEPT ![handlers[m].session] = StoreImage(WithWorkdir(@), m)],
              [handlers EXCEPT ![m].pc = "error"], jobs)

\* message.answer of line 364 raises: no task, no new session
NoticeFails(m) ==
    /\ handlers[m].pc = "ack_second"
    /\ Commit(SESSIONS, heap, [handlers EXCEPT ![m].pc = "error"], jobs)

\* _poll_and_send as created: it refers to the handler's session object
NewJob(m) ==
    [user |-> handlers[m].user, session |-> handlers[m].session, pc |-> "sleeping",
     handed |-> <<heap[handlers[m].session].start_b64, heap[handlers[m].session].end_b64>>,
     sent |-> <<0, 0>>, outcome |-> "none", movedOn |-> FALSE]

\* the notice for the second image was sent: asyncio.create_task(_poll_and_send())
\* and SESSIONS[user_id] = Session(), with no await between them; the handler
\* then only awaits its last answer
StartJob(m) ==
    /\ handlers[m].pc = "ack_second"
    /\ Commit([SESSIONS EXCEPT ![handlers[m].user] = NewId], Alloc(heap),
              [handlers EXCEPT ![m] = Ended], Append(jobs, NewJob(m)))

\* the task was created, the session replaced, and message.answer of line 431 raises
LastAnswerFails(m) ==
    /\ handlers[m].pc = "ack_second"
    /\ Commit([SESSIONS EXCEPT ![handlers[m].user] = NewId], Alloc(heap),
              [handlers EXCEPT ![m].pc = "error"], Append(jobs, NewJob(m)))

\* except Exception: the error text was sent, then SESSIONS[user_id] = Session()
ErrorReported(m) ==
    /\ handlers[m].pc = "error"
    /\ Commit([SESSIONS EXCEPT ![handlers[m].user] = NewId], Alloc(heap),
              [handlers EXCEPT ![m] = Ended], jobs)

\* except Exception: message.answer raises too, the handler ends there
ErrorReportFails(m) ==
    /\ handlers[m].pc = "error"
    /\ Commit(SESSIONS, heap, [handlers EXCEPT ![m] = Ended], jobs)

\* SESSIONS[user_id] = Session() of cmd_start, cmd_cancel and start_flow_by_text;
\* the poll tasks of the user that are in flight see their session replaced
Reset(u) ==
    Commit([SESSIONS EXCEPT ![u] = NewId], Alloc(heap), handlers,
           [k \in DOMAIN jobs |->
               IF jobs[k].user = u /\ jobs[k].pc # "done"
               THEN [jobs[k] EXCEPT !.movedOn = TRUE] ELSE jobs[k]])

cmd_start == \E u \in SUsers : Reset(u)

cmd_cancel == \E u \in SUsers : Reset(u)

start_flow_by_text == \E u \in SUsers : Reset(u)

\* the calls of kling_generate_video that hold a worker thread
Running == {k \in DOMAIN jobs : jobs[k].pc = "running"}

\* asyncio.sleep(next_delay) is over: run_in_executor(None, kling_generate_video,
\* session.start_b64, session.end_b64) reads the images now; the call starts
\* if a worker of the pool is free and waits in the pool's queue otherwise
JobRequest(k) ==
    /\ jobs[k].pc = "sleeping"
    /\ Commit(SESSIONS, heap, handlers,
              [jobs EXCEPT ![k].sent = <<heap[jobs[k].session].start_b64,
                                        heap[jobs[k].session].end_b64>>,
                           ![k].pc = IF Cardinality(Running) < PoolSize
                                     THEN "running" ELSE "queued"])

\* a worker has become free and takes the call from the queue
JobDequeue(k) ==
    /\ jobs[k].pc = "queued"
    /\ Cardinality(Running) < PoolSize
    /\ Commit(SESSIONS, heap, handlers, [jobs EXCEPT ![k].pc = "running"])

\* the task has sent its last message; nothing else of it is used afterwards
Over(outcome) ==
    [user |-> 0, session |-> 0, pc |-> "done", handed |-> <<0, 0>>, sent |-> <<0, 0>>,
     outcome |-> outcome, movedOn |-> FALSE]

\* kling_generate_video returned the url: answer_video, whatever SESSIONS holds
JobSucceeds(k) ==
    /\ jobs[k].pc = "running"
    /\ Commit(SESSIONS, heap, handlers, [jobs EXCEPT ![k] = Over("video")])

\* kling_generate_video raised TimeoutError: the timeout text
JobTimesOut(k) ==
    /\ jobs[k].pc = "running"
    /\ Commit(SESSIONS, heap, handlers, [jobs EXCEPT ![k] = Over("timeout")])

(***************************************************************************)
(* The specifications.                                                     *)
(***************************************************************************)
vars == <<sqlVars, callVars, payVars, pollVars, sessVars>>

Init == LedgerInit /\ PayInit /\ PollInit /\ SessInit

\* Spec: both handlers, concurrently, on the notifications of SmallNotifs.
ChatDelivery == \E n \in SmallNotifs : ChatNotify(n)

WebhookDelivery == \E n \in SmallNotifs : WebhookNotify(n)

HandlerTxn == \E p \in Procs : PayTxn(p)

Next ==
    \/ ChatDelivery
    \/ WebhookDelivery
    \/ HandlerTxn
    \/ ChatSendDiagnostic
    \/ ChatSendConfirmation
    \/ ChatSendError
    \/ WebhookReject
    \/ WebhookRespondOk
    \/ WebhookRespond500

Spec == Init /\ [][Next]_vars

\* SpecVerify: the verification as a function of the notification.  One
\* notification of RichNotifs is delivered, to the bot or to the webhook, and
\* its handler runs to its end.
ChatDeliveryAlone ==
    /\ delivered = 0
    /\ \E n \in RichNotifs : ChatNotify(n)

WebhookDeliveryAlone ==
    /\ delivered = 0
    /\ \E n \in RichNotifs : WebhookNotify(n)

NextVerify ==
    \/ ChatDeliveryAlone
    \/ WebhookDeliveryAlone
    \/ HandlerTxn
    \/ ChatSendDiagnostic
    \/ ChatSendConfirmation
    \/ WebhookReject
    \/ WebhookRespondOk
    \/ WebhookRespond500

SpecVerify == Init /\ [][NextVerify]_vars

\* SpecPay: users ask to pay, the provider notifies the bot or the webhook of
\* each payment, and the handlers credit the ledger.
PayRequest == \E u \in Payers, name \in FullNames : pay_by_text(u, name)

ChatPaid == \E r \in requests : ChatNotify(PaidNotification(r))

WebhookPaid == \E r \in requests : WebhookNotify(PaidNotification(r))

NextPay ==
    \/ PayRequest
    \/ ChatPaid
    \/ WebhookPaid
    \/ HandlerTxn
    \/ ChatSendConfirmation
    \/ ChatSendError
    \/ WebhookRespondOk
    \/ WebhookRespond500

InitPay == Init /\ YOOMONEY_SECRET = RealSecret

SpecPay == InitPay /\ [][NextPay]_vars

\* SpecLedger: increment_user_balance called directly by both processes.
LedgerCall == \E p \in Procs, u \in {1, 2}, d \in Deltas : Call(p, u, d)

LedgerStep == \E p \in Procs : LedgerTxn(p)

NextLedger == LedgerCall \/ LedgerStep

SpecLedger == Init /\ [][NextLedger]_vars

\* SpecPoll: one poll task.
NextPoll ==
    \/ PollSleep
    \/ SubmitOk
    \/ SubmitFails
    \/ CheckDeadline
    \/ StatusProcessing
    \/ StatusReadTimedOut
    \/ StatusSucceed
    \/ StatusFails
    \/ PollWait
    \/ Notify
    \/ Finish

SpecPoll == Init /\ [][NextPoll]_vars

\* SpecPollLive: the event loop goes on running the task and every call to the
\* service returns, raises or times out, so a step that is possible is taken.
SpecPollLive == SpecPoll /\ WF_vars(NextPoll)


\* SpecSession: the image flow of two users, the commands and the poll tasks.
ImageIntake == \E u \in SUsers : ImageArrives(u)

HandlerStep ==
    \E m \in DOMAIN handlers :
        \/ DownloadDone(m)
        \/ DownloadFails(m)
        \/ FileWriteFails(m)
        \/ FirstAnswerFails(m)
        \/ NoticeFails(m)
        \/ StartJob(m)
        \/ LastAnswerFails(m)
        \/ ErrorReported(m)
        \/ ErrorReportFails(m)

OtherDocument == \E u \in SUsers : NotAnImage(u)

JobStep ==
    \E k \in DOMAIN jobs :
        \/ JobRequest(k)
        \/ JobSucceeds(k)
        \/ JobTimesOut(k)

NextSession ==
    \/ ImageIntake
    \/ HandlerStep
    \/ cmd_start
    \/ cmd_cancel
    \/ start_flow_by_text
    \/ OtherDocument
    \/ JobStep

\* the ledger and the secret play no part in the image flow
InitSession == Init /\ ~hasUsername /\ YOOMONEY_SECRET = RealSecret

SpecSession == InitSession /\ [][NextSession]_vars

\* SpecIntake: the handlers and the commands alone; the poll tasks that were
\* created stay in their first sleep and keep their session object.
NextIntake ==
    \/ ImageIntake
    \/ HandlerStep
    \/ cmd_start
    \/ cmd_cancel
    \/ start_flow_by_text
    \/ OtherDocument

SpecIntake == InitSession /\ [][NextIntake]_vars

\* SpecPool: images that arrive one after the other and are stored without a
\* fault, and the poll tasks on the worker threads of the default executor.
ImageAlone == \E u \in SUsers : ImageArrivesAlone(u)

StoreStep == \E m \in DOMAIN handlers : DownloadDone(m) \/ StartJob(m)

WorkerFreed == \E k \in DOMAIN jobs : JobDequeue(k)

NextPool ==
    \/ ImageAlone
    \/ StoreStep
    \/ JobStep
    \/ WorkerFreed

SpecPool == InitSession /\ [][NextPool]_vars

(***************************************************************************)
(* The claims.                                                             *)
(***************************************************************************)

\* C1: for increment calls with non-negative deltas issued concurrently by the
\* bot process and the webhook process, once all calls have ended the stored
\* balance of every user is the sum of all deltas issued for it (the ledger
\* starts empty): no delta is lost.  Stated for a payments table that has the
\* username column, so that the statements of both processes can run.
C1_NoDeltaLost ==
    (/\ hasUsername
     /\ \A p \in Procs : Finished(p)
     /\ \A u \in Users : ~negIssued[u])
        => \A u \in Users : get_user_balance(u) = issued[u]

\* C2: crediting is idempotent: no notification is credited more than once,
\* however often and on whichever channel it is delivered.
C2_CreditedOnce == \A k \in DOMAIN credits : credits[k] <= 1

Diagnostics == {"diag_invalid", "diag_unresolved", "http400_invalid", "http400_label"}

\* a step of the handler of p that enters or leaves the rejection of a notification
RejectStep(p) == hnd'[p] # hnd[p] /\ (hnd[p].st = "reject" \/ hnd'[p].st = "reject")

\* C3: when a notification is rejected (invalid signature, codepro, or no
\* user id in the label), on either channel, the handler makes no ledger
\* call, leaves every row of the ledger as it was, and what it emits
\* is a diagnostic.
C3_RejectionMutatesNothing ==
    [][\A p \in Procs : RejectStep(p) =>
          /\ db' = db
          /\ lock' = lock
          /\ credits' = credits
          /\ txn'[p].pc = "idle"
          /\ hnd[p].st = "reject" => reply'[p].kind \in Diagnostics]_vars

C3_Witness ==
    /\ reply["webhook"].kind = "http400_invalid"
    /\ reply["bot"].kind = "diag_unresolved"

\* the digest of the eight fields and the secret, as the claims name it
ClaimDigest(n) ==
    Sha1Hex(Get(n, "notification_type", <<>>) \o <<"&">> \o Get(n, "operation_id", <<>>)
            \o <<"&">> \o Get(n, "amount", <<>>) \o <<"&">> \o Get(n, "currency", <<>>)
            \o <<"&">> \o Get(n, "datetime", <<>>) \o <<"&">> \o Get(n, "sender", <<>>)
            \o <<"&">> \o Get(n, "codepro", <<>>) \o <<"&">> \o Get(n, "label", <<>>)
            \o <<"&">> \o (IF YOOMONEY_SECRET # <<>> THEN YOOMONEY_SECRET
                           ELSE Get(n, "secret", <<>>)))

\* the received signature field: sha1_hash, else md5, else notification_secret
ClaimSignature(n) ==
    CASE "sha1_hash" \in DOMAIN n /\ n["sha1_hash"] # <<>> -> n["sha1_hash"]
      [] "md5" \in DOMAIN n /\ n["md5"] # <<>> -> n["md5"]
      [] "notification_secret" \in DOMAIN n -> n["notification_secret"]
      [] OTHER -> <<>>

Accepted(p) == hnd[p].st = "crediting"

Rejected(p) == hnd[p].st = "reject" /\ txn[p].pc = "idle"

\* C4 as stated: a notification is accepted only if its codepro field equals "false".
C4_AcceptedOnlyCodeproFalse ==
    \A p \in Procs : Accepted(p) =>
        "codepro" \in DOMAIN hnd[p].n /\ hnd[p].n["codepro"] = FalseStr

\* C4, amended: a notification is accepted only if its codepro field is absent
\* or equals "false" when lower-cased; a notification whose codepro is "true"
\* is rejected and credits no balance, on both channels, whether or not its
\* signature is correct.
C4_CodeproNeverCredited ==
    /\ \A p \in Procs : Accepted(p) =>
           \/ "codepro" \notin DOMAIN hnd[p].n
           \/ Lower(hnd[p].n["codepro"]) = FalseStr
    /\ \A p \in Procs :
           (hnd[p].st # "idle" /\ Get(hnd[p].n, "codepro", <<>>) = TrueStr) => Rejected(p)
    /\ \A k \in DOMAIN credits : Get(k[1], "codepro", <<>>) # TrueStr

C4_Witness ==
    \E p \in Procs :
        /\ Rejected(p)
        /\ Get(hnd[p].n, "codepro", <<>>) = TrueStr
        /\ ClaimSignature(hnd[p].n) = ClaimDigest(hnd[p].n)
        /\ reply[p].kind = "none"

\* a and b have the same length and differ at exactly one place
OneCharDiffers(a, b) ==
    /\ Len(a) = Len(b)
    /\ Cardinality({i \in DOMAIN a : a[i] # b[i]}) = 1

\* C5 as stated: a notification whose received signature differs in any single
\* character from the computed digest is not accepted.
C5_AnyCharDiffRejected ==
    \A p \in Procs : Accepted(p) =>
        ~OneCharDiffers(ClaimSignature(hnd[p].n), ClaimDigest(hnd[p].n))

\* C5, amended: a notification whose received signature differs from the
\* computed digest in any single character, other than in the case of a
\* letter, is rejected and credits nothing: whatever is accepted or credited
\* carries the digest up to letter case.
C5_SignatureMismatchRejected ==
    /\ \A p \in Procs : Accepted(p) =>
           Lower(ClaimSignature(hnd[p].n)) = ClaimDigest(hnd[p].n)
    /\ \A p \in Procs :
           (/\ hnd[p].st # "idle"
            /\ OneCharDiffers(Lower(ClaimSignature(hnd[p].n)), ClaimDigest(hnd[p].n)))
               => Rejected(p)
    /\ \A k \in DOMAIN credits : Lower(ClaimSignature(k[1])) = ClaimDigest(k[1])

C5_Witness ==
    \E p \in Procs :
        /\ Rejected(p)
        /\ OneCharDiffers(Lower(ClaimSignature(hnd[p].n)), ClaimDigest(hnd[p].n))
        /\ Get(hnd[p].n, "codepro", <<>>) = FalseStr
        /\ Get(hnd[p].n, "currency", <<>>) = Rub
        /\ "md5" \in DOMAIN hnd[p].n

\* C6: for every notification that passes verification and resolves to a user,
\* the increment made for it completes: it does not end in an exception that
\* leaves the user's balance as it was.
C6_VerifiedIsCredited ==
    \A p \in Procs : Accepted(p) => txn[p].pc # "raised"

\* C7: every stored paid_generations is >= 0, and an increment that is not a
\* plain read stores and returns max(0, current + delta); -1000 on a zero or
\* missing balance gives 0.
C7_BalanceNeverNegative ==
    /\ \A u \in Users : db[u].paid >= 0
    /\ \A p \in Procs :
           (txn[p].pc \in {"written", "committing"}) =>
               /\ txn[p].newVal >= 0
               /\ txn[p].newVal = (IF txn[p].cur + txn[p].delta > 0
                                   THEN txn[p].cur + txn[p].delta ELSE 0)
    /\ \A p \in Procs :
           (txn[p].pc = "returned" /\ txn[p].delta # 0) =>
               /\ txn[p].ret = txn[p].newVal
               /\ txn[p].ret >= 0
               /\ (txn[p].delta = -1000 /\ txn[p].cur = 0) => txn[p].ret = 0

C7_Witness ==
    \E p \in Procs :
        /\ txn[p].pc = "returned"
        /\ txn[p].delta = -1000
        /\ txn[p].cur = 2
        /\ txn[p].ret = 0
        /\ db[txn[p].user] = [exists |-> TRUE, paid |-> 0, last |-> "ts"]

HasDigit(s) == \E i \in DOMAIN s : s[i] \in {"0", "1", "2", "3", "4", "5", "6", "7", "8", "9"}

AllDigits(s) == s # <<>> /\ \A i \in DOMAIN s : s[i] \in {"0", "1", "2", "3", "4", "5", "6", "7", "8", "9"}

\* the user a label names, by the three rules in their order
ClaimUser(label) ==
    IF AllDigits(label) THEN ToInt(label)
    ELSE IF StartsWith(label, UserIdPrefix)
            /\ AllDigits(SubSeq(label, Len(UserIdPrefix) + 1, Len(label)))
    THEN ToInt(SubSeq(label, Len(UserIdPrefix) + 1, Len(label)))
    ELSE ToInt(SelectSeq(label, LAMBDA c : HasDigit(<<c>>)))

\* C8: the user of a verified notification is the whole label when it is all
\* digits, else the digits after "user_id:", else the digits of the label
\* concatenated; a label without a digit is rejected as unresolved and
\* nothing is credited.
C8_UserFromLabel ==
    /\ \A p \in Procs : Accepted(p) =>
           /\ HasDigit(Get(hnd[p].n, "label", <<>>))
           /\ txn[p].user = ClaimUser(Get(hnd[p].n, "label", <<>>))
    /\ \A p \in Procs :
           (hnd[p].st = "reject" /\ hnd[p].reason = "unresolved") =>
               /\ ~HasDigit(Get(hnd[p].n, "label", <<>>))
               /\ txn[p].pc = "idle"
    /\ \A p \in Procs :
           (hnd[p].st # "idle" /\ ~HasDigit(Get(hnd[p].n, "label", <<>>))) => Rejected(p)
    /\ \A k \in DOMAIN credits :
           HasDigit(Get(k[1], "label", <<>>)) /\ k[2] = ClaimUser(Get(k[1], "label", <<>>))

C8_Witness ==
    \E p \in Procs :
        /\ Accepted(p)
        /\ Get(hnd[p].n, "label", <<>>) = LabelPrefixedMixed
        /\ txn[p].pc = "returned"
        /\ txn[p].user = 2
        /\ db[2].paid = 1

\* the longest a task can overrun a deadline that it checks before each
\* status request: one request that times out and one wait
PollRound == StatusReadTimeout + PollIntervalCap

\* C9: a job whose status stays "processing" (no poll succeeds or fails) ends
\* in the timeout message, after more than 20 minutes of polling its one
\* task, and it is over within one poll round of the 20 minutes.
C9_ProcessingEndsTimedOut ==
    (failures = 0 /\ video_url = "") =>
        /\ pc = "done" => /\ finalMsg = "timeout"
                          /\ submissions = 1
                          /\ now - firstSubmitAt > MAX_WAIT
        /\ (pc # "done" /\ firstSubmitAt >= 0) => now - firstSubmitAt <= MAX_WAIT + PollRound

C9_Witness ==
    /\ pc = "done"
    /\ failures = 0
    /\ finalMsg = "timeout"
    /\ notify_count = 0
    /\ now - firstSubmitAt > MAX_WAIT

\* C10: no poll task is still submitting, polling or waiting once 20 minutes
\* (and one poll round) have passed since its job was first submitted.
C10_DeadlineFromFirstSubmission ==
    (pc # "done" /\ firstSubmitAt >= 0) => now - firstSubmitAt <= MAX_WAIT + PollRound

\* C11: a job for which the service reported "failed", or refused a request
\* with a non-zero code, ends with a failure message that carries the
\* service's reason, not with the video or the timeout text.
C11_FailureSurfaced ==
    (failures > 0 /\ pc = "done") => finalMsg = "failed"

\* the first status request of the job answered "succeed": one task was
\* created, nothing failed, and no wait between two requests has happened
FirstPollSucceeded ==
    /\ video_url # ""
    /\ submissions = 1
    /\ failures = 0
    /\ poll_interval = InitialPollInterval

\* C12: when the first status poll answers "succeed" with a url, the task ends
\* by sending the video with that url, no progress notification is sent, and
\* that poll, like every poll, happens only after the first 30-second delay.
C12_FirstPollSucceeds ==
    /\ pc = "polling" => now >= InitialDelay
    /\ FirstPollSucceeded =>
           /\ now >= InitialDelay
           /\ notify_count = 0
           /\ finalMsg \in {"none", "video"}
           /\ pc \in {"finishing", "done"}
           /\ pc = "done" => finalMsg = "video"

C12_Witness ==
    /\ FirstPollSucceeded
    /\ pc = "done"
    /\ finalMsg = "video"
    /\ now = InitialDelay

\* C20: the job of one generation request is submitted to the service exactly
\* once: no second task is ever created, whatever the polls return.
C20_SubmittedOnce == submissions <= 1

\* C19: the webhook accepts a notification only if its currency is exactly
\* "643": while it handles a notification with another or no currency the
\* notification stands rejected, no increment is entered, the ledger stays as
\* it is, and the answer is HTTP 400.
C19_WebhookCurrency ==
    [][/\ (/\ hnd'["webhook"].st # "idle"
           /\ Get(hnd'["webhook"].n, "currency", <<>>) # <<"6", "4", "3">>)
              => /\ hnd'["webhook"].st = "reject"
                 /\ hnd'["webhook"].reason = "invalid"
                 /\ txn'["webhook"].pc = "idle"
       /\ (/\ hnd["webhook"].st # "idle"
           /\ Get(hnd["webhook"].n, "currency", <<>>) # <<"6", "4", "3">>)
              => /\ db' = db
                 /\ credits' = credits
                 /\ hnd'["webhook"].st = "idle" => reply'["webhook"].kind = "http400_invalid"]_vars

C19_Witness ==
    /\ Rejected("webhook")
    /\ "currency" \notin DOMAIN hnd["webhook"].n
    /\ Get(hnd["webhook"].n, "codepro", <<>>) = FalseStr
    /\ ClaimSignature(hnd["webhook"].n) = ClaimDigest(hnd["webhook"].n)
    /\ HasDigit(Get(hnd["webhook"].n, "label", <<>>))

\* C13: however many jobs are in flight, none of them waits for another job to
\* finish: a call of kling_generate_video is never held in the executor's queue.
C13_NoJobWaits == \A k \in DOMAIN jobs : jobs[k].pc # "queued"

\* C14: the poll task that the second image starts works with the two images
\* the session held when the task was created.
C14_JobSendsSessionImages ==
    \A k \in DOMAIN jobs : jobs[k].pc \in {"running", "queued"} => jobs[k].sent = jobs[k].handed

\* C15: a poll task whose user has issued /start or /cancel since it was created
\* delivers no video when it finishes.
C15_MovedOnResultDiscarded ==
    [][\A k \in DOMAIN jobs :
          (jobs[k].movedOn /\ jobs[k].pc = "running" /\ jobs'[k].pc = "done")
              => jobs'[k].outcome # "video"]_vars

\* C16: the images of one user take effect on the session in arrival order: in
\* every session object the first image arrived before the second one.
C16_ArrivalOrder ==
    \A i \in DOMAIN heap :
        (heap[i].start_b64 # 0 /\ heap[i].end_b64 # 0) => heap[i].start_b64 < heap[i].end_b64

\* C17: in every session object, the one of the store or one still held by a
\* handler or a poll task, the second image is set only if the first image is.
C17_SecondOnlyAfterFirst ==
    \A i \in DOMAIN heap : heap[i].end_b64 # 0 => heap[i].start_b64 # 0

\* a session object that two handlers filled while a third call ran on
C17_Witness ==
    \E i \in DOMAIN heap :
        /\ heap[i].end_b64 # 0
        /\ heap[i].start_b64 # 0
        /\ \E m \in InFlight : handlers[m].session = i

\* C18: right after the start of a job and right after an on_image call has
\* ended with an error, the store's entry of the user is a fresh session.
C18_FreshAfterReset ==
    [][/\ Len(jobs') > Len(jobs) =>
            heap'[SESSIONS'[jobs'[Len(jobs')].user]] = NewSession
       /\ \A m \in DOMAIN handlers :
            (handlers[m].pc = "error" /\ handlers'[m].pc = "done")
                => /\ SESSIONS'[handlers[m].user] # 0
                   /\ heap'[SESSIONS'[handlers[m].user]] = NewSession]_vars

\* C21: a poll task sends at most one progress notification per value of the
\* wait interval, and at most 20 of them in all.
C21_OnePerDelayTier ==
    /\ Len(notifiedAt) <= 20
    /\ \A i, j \in DOMAIN notifiedAt : i # j => notifiedAt[i] # notifiedAt[j]

ClaimNextDelay(d) == IF d = 30 THEN 60 ELSE IF d = 60 THEN 75 ELSE 90

\* C22: the wait interval starts at 30, is always one of 30, 60, 75 and 90,
\* changes only at the end of a round that did not end the task, and then goes
\* 30 -> 60 -> 75 -> 90 -> 90; so it never decreases and never exceeds 90.
C22_DelayLadder ==
    /\ next_delay = 30
    /\ [](next_delay \in {30, 60, 75, 90})
    /\ [][/\ next_delay' >= next_delay
          /\ next_delay' # next_delay => notify_count' = notify_count + 1
          /\ (notify_count' = notify_count + 1 /\ pc' = "sleeping")
                => next_delay' = ClaimNextDelay(next_delay)]_vars

\* the interval has reached 90 and stayed there over a further round
C22_Witness == next_delay = 90 /\ notify_count >= 5 /\ pc = "sleeping"

C23_JobKeepsItsPair ==
    \A k \in DOMAIN jobs :
        jobs[k].sent # <<0, 0>> =>
            /\ jobs[k].sent = jobs[k].handed
            /\ \A j \in DOMAIN jobs \ {k} :
                  jobs[j].sent # <<0, 0>> => jobs[j].sent[2] # jobs[k].sent[2]

\* C25: when the webhook answers a request with status 400 or 500, the request
\* has changed no balance: its increment_user_balance call has not committed.
C25_ErrorLeavesBalance ==
    [][(/\ hnd["webhook"].st # "idle"
        /\ hnd'["webhook"].st = "idle"
        /\ reply'["webhook"].kind \in {"http400_invalid", "http400_label", "http500"})
            => txn["webhook"].pc # "returned"]_vars

\* C24: a verified payment that user U started credits U and nobody else: every
\* credit caused by a notification that carries the label of U's request goes
\* to U.
C24_PaymentCreditsPayer ==
    \A k \in DOMAIN credits : \A r \in requests :
        Get(k[1], "label", <<>>) = r.label => k[2] = r.user

====
